---- MODULE Spec2Model ----
(***************************************************************************)
(* A state-machine model of the two training scripts of the repository:    *)
(*   - arc_gempool.py: run_training / train_one_epoch (best-weights         *)
(*     checkpointing, gradient accumulation), ArcMarginProduct.forward and  *)
(*     GeM.gem;                                                            *)
(*   - lstm_train.py: the train/held-out split, the batch loop and the      *)
(*     final torch.save.                                                    *)
(* Model weights are abstracted to a version number: the number of          *)
(* optimizer.step() calls that produced them.  Real numbers are fixed-point *)
(* integers (see Scale).                                                    *)
(***************************************************************************)
EXTENDS Integers, Sequences, FiniteSets

VARIABLES
    \* ---- arc_gempool.py: run_training / train_one_epoch
    n_accumulate,     \* CONFIG['n_accumulate']
    n_batches,        \* len(train_loader)
    has_scheduler,    \* scheduler is not None
    pc,               \* "train" | "valid" | "load" | "done" | "off"
    epoch,            \* loop variable of run_training, 1..num_epochs
    step,             \* loop variable of train_one_epoch (enumerate index)
    grad_acc,         \* backward passes summed into .grad since the last zero_grad
    weights,          \* model.state_dict(), as the number of optimizer steps behind it
    sched_steps,      \* number of scheduler.step() calls
    applied,          \* backward passes in the gradient the latest optimizer.step() used
    ops,              \* the calls made by the latest loop iteration, in order
    best_epoch_loss,
    best_model_wts,
    history,          \* history['Valid Loss']
    snaps,            \* model.state_dict() at the end of each epoch (history variable)
    files,            \* the torch.save calls so far: [epoch, loss, wts]
    \* ---- lstm_train.py
    n_rows,           \* len(pd.read_csv(train_path))
    v_pc,             \* "forward" | "zero_grad" | "backward" | "step" | "save" | "done" | "off"
    v_epoch,
    v_i,
    v_weights,        \* lstm1.state_dict(), as the number of optimizer steps behind it
    v_grad,           \* backward passes summed into .grad since the last zero_grad
    v_ops,            \* the calls made for the current batch, in order
    v_loss,           \* loss.item() of the current batch
    running_loss,
    v_fed,            \* CSV row intervals <<lo, hi>> passed to lstm1.forward this epoch
    epoch_log,        \* per finished epoch: [loss |-> running_loss, wts |-> weights]
    saved,            \* model_LSTM.pt: <<the state_dict written>>, NoFile before
    \* ---- ArcMarginProduct.forward
    arc_pc,           \* "input" | "done" | "off"
    arc_easy_margin,  \* self.easy_margin
    arc_ls_eps,       \* self.ls_eps, fixed point
    arc_cosine,       \* cosine[i][j], fixed point
    arc_label,        \* label[i]
    arc_output,       \* output[i][j], fixed point
    \* ---- GeM.gem
    gem_pc,           \* "input" | "done" | "off"
    gem_x,            \* one channel of the feature map, gem_x[h][w]
    gem_p,
    gem_out,
    \* ---- HappyWhaleModel.__init__: the CONFIG entries the head is built from
    cfg_easy_margin,  \* CONFIG['easy_margin']
    cfg_ls_eps,       \* CONFIG['ls_eps'], fixed point
    \* ---- lstm_train.py: LSTM1.forward and lines 117-120 on one batch
    l_pc,             \* "input" | "done" | "off"
    l_net,            \* the weights: l_net[d][f] is pressure_in of direction d for features f
    l_x,              \* the features of the batch, l_x[k]
    l_pred,           \* pressure_in after line 120, l_pred[k]
    l_x0,             \* the batch of the previous pass (<<>> when there is none)
    l_pred0           \* the predictions of the previous pass

trainVars == <<n_accumulate, n_batches, has_scheduler, pc, epoch, step, grad_acc,
               weights, sched_steps, applied, ops, best_epoch_loss, best_model_wts,
               history, snaps, files>>
ventVars == <<n_rows, v_pc, v_epoch, v_i, v_weights, v_grad, v_ops, v_loss,
              running_loss, v_fed, epoch_log, saved>>
arcVars == <<arc_pc, arc_easy_margin, arc_ls_eps, arc_cosine, arc_label, arc_output>>
gemVars == <<gem_pc, gem_x, gem_p, gem_out>>
cfgVars == <<cfg_easy_margin, cfg_ls_eps>>
lstmVars == <<l_pc, l_net, l_x, l_pred, l_x0, l_pred0>>
vars == <<trainVars, ventVars, arcVars, gemVars, cfgVars, lstmVars>>

(***************************************************************************)
(* Bounds of the model.                                                    *)
(***************************************************************************)
\* CONFIG['epochs'] is 4 and num_epochs of lstm_train.py is 1000; both loops are
\* run for NumEpochs epochs.
NumEpochs == 3
\* len(train_loader) ranges over 1..MaxBatches.
MaxBatches == 3
\* CONFIG['n_accumulate'] ranges over 1..MaxAccumulate.
MaxAccumulate == 2
\* A loss is one of 0..MaxLoss.
MaxLoss == 2
\* The number of classes (out_features; CONFIG['num_classes'] is 15587).
NumClasses == 2

Losses == 0..MaxLoss

\* np.inf: above every loss.
inf == 1000000

Min(S) == CHOOSE x \in S : \A y \in S : x <= y
Range(s) == {s[k] : k \in DOMAIN s}
Last(s) == s[Len(s)]

\* CONFIG as the script sets it (lines 80-81); no head is built from it.
CfgOff == cfg_easy_margin = FALSE /\ cfg_ls_eps = 0

\* LSTM1.forward is not called.
LstmOff ==
    /\ l_pc = "off" /\ l_net = <<>> /\ l_x = <<>> /\ l_pred = <<>>
    /\ l_x0 = <<>> /\ l_pred0 = <<>>

\* The sub-models a specification does not run stay in these states.
TrainOff ==
    /\ n_accumulate = 1 /\ n_batches = 1 /\ has_scheduler = TRUE
    /\ pc = "off" /\ epoch = 0 /\ step = 0 /\ grad_acc = 0 /\ weights = 0
    /\ sched_steps = 0 /\ applied = 0 /\ ops = <<>>
    /\ best_epoch_loss = inf /\ best_model_wts = 0
    /\ history = <<>> /\ snaps = <<>> /\ files = <<>>

(***************************************************************************)
(* arc_gempool.py: run_training and train_one_epoch.                       *)
(***************************************************************************)
\* The state at line 429, about to enter the epoch loop: best_model_wts is the
\* deep copy of the initial state_dict, best_epoch_loss is np.inf.
TrainInit ==
    /\ n_accumulate \in 1..MaxAccumulate
    /\ n_batches \in 1..MaxBatches
    /\ has_scheduler \in BOOLEAN
    /\ pc = "train" /\ epoch = 1 /\ step = 0
    /\ grad_acc = 0 /\ weights = 0 /\ sched_steps = 0 /\ applied = 0 /\ ops = <<>>
    /\ best_epoch_loss = inf /\ best_model_wts = 0
    /\ history = <<>> /\ snaps = <<>> /\ files = <<>>

\* Line 362: whether this iteration ends an accumulation window.
StepDue(s, n) == (s + 1) % n = 0

\* One iteration of the loop of train_one_epoch (lines 349-380): loss.backward()
\* adds to .grad; when due, optimizer.step(), optimizer.zero_grad() and, with a
\* scheduler, scheduler.step().  step restarts at 0 in every epoch (enumerate),
\* grad_acc does not: nothing zeroes .grad between epochs.
TrainBatch ==
    /\ pc = "train"
    /\ step < n_batches
    /\ IF StepDue(step, n_accumulate)
       THEN /\ applied' = grad_acc + 1
            /\ weights' = weights + 1
            /\ grad_acc' = 0
            /\ sched_steps' = IF has_scheduler THEN sched_steps + 1 ELSE sched_steps
            /\ ops' = <<"backward", "optimizer.step", "zero_grad">>
                      \o (IF has_scheduler THEN <<"scheduler.step">> ELSE <<>>)
       ELSE /\ grad_acc' = grad_acc + 1
            /\ ops' = <<"backward">>
            /\ UNCHANGED <<applied, weights, sched_steps>>
    /\ step' = step + 1
    /\ pc' = IF step + 1 = n_batches THEN "valid" ELSE "train"
    /\ UNCHANGED <<n_accumulate, n_batches, has_scheduler, epoch, best_epoch_loss,
                   best_model_wts, history, snaps, files>>
    /\ UNCHANGED <<ventVars, arcVars, gemVars, cfgVars, lstmVars>>

\* Mutant of Improved: only a strictly lower loss counts.
ImprovedStrictly(val, best) == val < best

\* Line 446: the test that decides whether the epoch is checkpointed.
Improved(val, best) == val <= best

\* Lines 435-456, then the loop header: valid_one_epoch returns val (it runs under
\* inference_mode and changes no gradient), the loss is appended to the history,
\* and an epoch that passes the test of line 446 becomes the best one and is
\* written to a file named after its loss and epoch.
ValidAndCheckpoint(val) ==
    /\ pc = "valid"
    /\ history' = Append(history, val)
    /\ snaps' = Append(snaps, weights)
    /\ IF Improved(val, best_epoch_loss)
       THEN /\ best_epoch_loss' = val
            /\ best_model_wts' = weights
            /\ files' = Append(files, [epoch |-> epoch, loss |-> val, wts |-> weights])
       ELSE UNCHANGED <<best_epoch_loss, best_model_wts, files>>
    /\ IF epoch < NumEpochs
       THEN /\ epoch' = epoch + 1
            /\ step' = 0
            /\ pc' = "train"
       ELSE /\ pc' = "load"
            /\ UNCHANGED <<epoch, step>>
    /\ ops' = <<>>
    /\ UNCHANGED <<n_accumulate, n_batches, has_scheduler, grad_acc, weights,
                   sched_steps, applied>>
    /\ UNCHANGED <<ventVars, arcVars, gemVars, cfgVars, lstmVars>>

\* Mutant of LoadedStateDict: the model keeps the weights of the last epoch.
LoadedLastEpoch == weights

\* Line 467: what model.load_state_dict is given.
LoadedStateDict == best_model_wts

\* Line 467: model.load_state_dict(best_model_wts), then return.
LoadBest ==
    /\ pc = "load"
    /\ weights' = LoadedStateDict
    /\ pc' = "done"
    /\ UNCHANGED <<n_accumulate, n_batches, has_scheduler, epoch, step, grad_acc,
                   sched_steps, applied, ops, best_epoch_loss, best_model_wts,
                   history, snaps, files>>
    /\ UNCHANGED <<ventVars, arcVars, gemVars, cfgVars, lstmVars>>

(***************************************************************************)
(* lstm_train.py: the split (lines 37-41) and the training loop (107-149). *)
(***************************************************************************)
\* Line 37: test_data = train_data.iloc[:800].
HeldOutEnd == 800
\* Line 38: train_data = train_data.iloc[800:8800].
TrainEnd == 8800
\* Line 107.
batch_size == 80

\* model_LSTM.pt does not exist.
NoFile == <<>>

MinOf(a, b) == IF a <= b THEN a ELSE b

\* A set of CSV rows is an interval <<lo, hi>>, lo included and hi excluded.
Rows(iv) == iv[1]..(iv[2] - 1)

\* iloc[:800] of a frame of n rows (iloc cuts a slice at the end of the frame).
HeldOutRows(n) == <<0, MinOf(HeldOutEnd, n)>>

\* iloc[800:8800] of a frame of n rows.
TrainRows(n) == <<MinOf(HeldOutEnd, n), MinOf(TrainEnd, n)>>

\* len(train_data) after the split.
TrainLen(n) == TrainRows(n)[2] - TrainRows(n)[1]

\* Line 108.
batch_num_train(n) == TrainLen(n) \div batch_size

\* Mutant of BatchRows: the batches are sliced from the frame before the split.
BatchRowsUnsplit(n, i) == <<MinOf(i * batch_size, n), MinOf((i + 1) * batch_size, n)>>

\* Lines 114-117: the slice train_data[start:end] of batch i, as CSV rows: position
\* k of the training tensor is row TrainRows(n)[1] + k of the CSV.
BatchRows(n, i) ==
    LET start == i * batch_size
        end == start + batch_size
    IN  <<TrainRows(n)[1] + MinOf(start, TrainLen(n)),
          TrainRows(n)[1] + MinOf(end, TrainLen(n))>>

VentOff ==
    /\ n_rows = 0 /\ v_pc = "off" /\ v_epoch = 0 /\ v_i = 0 /\ v_weights = 0
    /\ v_grad = 0 /\ v_ops = <<>> /\ v_loss = 0 /\ running_loss = 0
    /\ v_fed = <<>> /\ epoch_log = <<>> /\ saved = NoFile

\* The state at line 111 for a CSV of n rows.
VentStart(n) ==
    /\ n_rows = n /\ v_pc = "epoch" /\ v_epoch = 0 /\ v_i = 0 /\ v_weights = 0
    /\ v_grad = 0 /\ v_ops = <<>> /\ v_loss = 0 /\ running_loss = 0
    /\ v_fed = <<>> /\ epoch_log = <<>> /\ saved = NoFile

\* Lines 111-112: the next epoch starts with running_loss = 0.
VentEpochStart ==
    /\ v_pc = "epoch"
    /\ v_epoch < NumEpochs
    /\ running_loss' = 0
    /\ v_i' = 0
    /\ v_fed' = <<>>
    /\ v_ops' = <<>>
    /\ v_pc' = "forward"
    /\ UNCHANGED <<n_rows, v_epoch, v_weights, v_grad, v_loss, epoch_log, saved>>
    /\ UNCHANGED <<trainVars, arcVars, gemVars, cfgVars, lstmVars>>

\* Lines 113-120: batch i is sliced from the training tensor and passed to
\* lstm1.forward.
VentForward ==
    /\ v_pc = "forward"
    /\ v_i < batch_num_train(n_rows)
    /\ v_fed' = Append(v_fed, BatchRows(n_rows, v_i))
    /\ v_ops' = <<"forward">>
    /\ v_pc' = "zero_grad"
    /\ UNCHANGED <<n_rows, v_epoch, v_i, v_weights, v_grad, v_loss, running_loss,
                   epoch_log, saved>>
    /\ UNCHANGED <<trainVars, arcVars, gemVars, cfgVars, lstmVars>>

\* Line 121: optimizer.zero_grad().
VentZeroGrad ==
    /\ v_pc = "zero_grad"
    /\ v_grad' = 0
    /\ v_ops' = Append(v_ops, "zero_grad")
    /\ v_pc' = "backward"
    /\ UNCHANGED <<n_rows, v_epoch, v_i, v_weights, v_loss, running_loss, v_fed,
                   epoch_log, saved>>
    /\ UNCHANGED <<trainVars, arcVars, gemVars, cfgVars, lstmVars>>

\* Lines 127-132: the loss of the batch is l; loss.backward().
VentBackward(l) ==
    /\ v_pc = "backward"
    /\ v_loss' = l
    /\ v_grad' = v_grad + 1
    /\ v_ops' = Append(v_ops, "backward")
    /\ v_pc' = "step"
    /\ UNCHANGED <<n_rows, v_epoch, v_i, v_weights, running_loss, v_fed, epoch_log,
                   saved>>
    /\ UNCHANGED <<trainVars, arcVars, gemVars, cfgVars, lstmVars>>

\* Lines 134-141: optimizer.step(), running_loss += loss.item(), next i.
VentStep ==
    /\ v_pc = "step"
    /\ v_weights' = v_weights + 1
    /\ running_loss' = running_loss + v_loss
    /\ v_ops' = Append(v_ops, "optimizer.step")
    /\ v_i' = v_i + 1
    /\ v_pc' = "forward"
    /\ UNCHANGED <<n_rows, v_epoch, v_grad, v_loss, v_fed, epoch_log, saved>>
    /\ UNCHANGED <<trainVars, arcVars, gemVars, cfgVars, lstmVars>>

\* Lines 143-146: the batch loop is over; the epoch is reported, nothing is kept.
VentEpochEnd ==
    /\ v_pc = "forward"
    /\ v_i = batch_num_train(n_rows)
    /\ epoch_log' = Append(epoch_log, [loss |-> running_loss, wts |-> v_weights])
    /\ v_epoch' = v_epoch + 1
    /\ v_pc' = "epoch"
    /\ UNCHANGED <<n_rows, v_i, v_weights, v_grad, v_ops, v_loss, running_loss,
                   v_fed, saved>>
    /\ UNCHANGED <<trainVars, arcVars, gemVars, cfgVars, lstmVars>>

\* Mutant of SavedStateDict: the weights held at the end of the first epoch.
SavedFirstEpoch == IF epoch_log = <<>> THEN v_weights ELSE epoch_log[1].wts

\* What line 149 writes: the state_dict the model holds after the loop.
SavedStateDict == v_weights

\* Lines 148-149: torch.save(lstm1.state_dict(), './weights/model_LSTM.pt').
VentSave ==
    /\ v_pc = "epoch"
    /\ v_epoch = NumEpochs
    /\ saved' = <<SavedStateDict>>
    /\ v_pc' = "done"
    /\ UNCHANGED <<n_rows, v_epoch, v_i, v_weights, v_grad, v_ops, v_loss,
                   running_loss, v_fed, epoch_log>>
    /\ UNCHANGED <<trainVars, arcVars, gemVars, cfgVars, lstmVars>>

\* The steps of lstm_train.py with the loss of a batch drawn from L.
VentNext(L) ==
    \/ VentEpochStart
    \/ VentForward
    \/ VentZeroGrad
    \/ \E l \in L : VentBackward(l)
    \/ VentStep
    \/ VentEpochEnd
    \/ VentSave

(***************************************************************************)
(* Fixed-point reals: the integer a stands for the real number a / Scale.  *)
(***************************************************************************)
Scale == 100 * 100

FxMul(a, b) == (a * b) \div Scale

RECURSIVE SqrtSearch(_, _, _)
\* The largest r in lo..hi with r * r <= n (lo * lo <= n is given).
SqrtSearch(n, lo, hi) ==
    IF lo >= hi THEN lo
    ELSE LET mid == (lo + hi + 1) \div 2
         IN  IF mid * mid <= n THEN SqrtSearch(n, mid, hi)
             ELSE SqrtSearch(n, lo, mid - 1)

\* The square root of the fixed-point number a in 0..Scale, rounded down.
FxSqrt(a) == SqrtSearch(a * Scale, 0, Scale)

(***************************************************************************)
(* arc_gempool.py: ArcMarginProduct (lines 217-292).                       *)
(***************************************************************************)
\* CONFIG['s'] = 30.0, line 78.
s == 30
\* Line 249: math.cos(0.5) = 0.87758...
cos_m == 8776
\* Line 250: math.sin(0.5) = 0.47942...
sin_m == 4794
\* Line 251: math.cos(math.pi - 0.5) = -0.87758...
th == -8776
\* Line 252: math.sin(math.pi - 0.5) * 0.5 = 0.23971...
mm == 2397

\* Line 265: sine = sqrt(1.0 - cosine^2).
Sine(cosine) == FxSqrt(Scale - FxMul(cosine, cosine))

\* Mutant of Phi: the sign of the sine term flipped, cos(theta - m).
PhiMinus(cosine) == FxMul(cosine, cos_m) + FxMul(Sine(cosine), sin_m)

\* Line 267: phi = cosine * cos_m - sine * sin_m.
Phi(cosine) == FxMul(cosine, cos_m) - FxMul(Sine(cosine), sin_m)

\* Mutant of GuardedPhi: the threshold itself takes the cos(theta + m) branch.
GuardedPhiInclusive(cosine) == IF cosine >= th THEN Phi(cosine) ELSE cosine - mm

\* Mutant of GuardedPhi: no guard, cos(theta + m) everywhere.
UnguardedPhi(cosine) == Phi(cosine)

\* Line 276: torch.where(cosine > th, phi, cosine - mm).
GuardedPhi(cosine) == IF cosine > th THEN Phi(cosine) ELSE cosine - mm

\* Line 270: torch.where(cosine > 0, phi, cosine).
EasyPhi(cosine) == IF cosine > 0 THEN Phi(cosine) ELSE cosine

\* Lines 269-276.
MarginPhi(cosine, easy_margin) ==
    IF easy_margin THEN EasyPhi(cosine) ELSE GuardedPhi(cosine)

\* Mutant of Scatter: the 1 lands in the column after the label's.
ScatterShifted(j, label) == IF j = (label + 1) % NumClasses THEN Scale ELSE 0

\* Lines 282-284: one_hot after scatter_(1, label, 1): row i has a 1 in column
\* label[i] and 0 elsewhere.
Scatter(j, label) == IF j = label THEN Scale ELSE 0

\* Lines 286-287: label smoothing, applied when ls_eps > 0.
OneHot(j, label, ls_eps, out_features) ==
    IF ls_eps > 0
    THEN FxMul(Scale - ls_eps, Scatter(j, label)) + (ls_eps \div out_features)
    ELSE Scatter(j, label)

\* Lines 289-290: one entry of the output.
Combine(one_hot, phi, cosine) ==
    (FxMul(one_hot, phi) + FxMul(Scale - one_hot, cosine)) * s

\* ArcMarginProduct.forward from the cosine matrix of line 258 on.
ArcForward(cosine, label, easy_margin, ls_eps) ==
    [i \in DOMAIN cosine |->
        [j \in DOMAIN cosine[i] |->
            Combine(OneHot(j, label[i], ls_eps, Cardinality(DOMAIN cosine[i])),
                    MarginPhi(cosine[i][j], easy_margin),
                    cosine[i][j])]]

\* The true-class cosines sweep [-1, 1] in 2 * GridN steps.
GridN == 6

Classes == 0..(NumClasses - 1)
\* The samples of a batch: two, so that two true-class cosines can be compared.
Samples == 0..1

\* True-class cosines: the sweep, and the three values around th.
FineCos == {(k * Scale) \div GridN : k \in (-GridN)..GridN} \cup {th - 1, th, th + 1}
\* Cosines of the other classes: one below th, one above.
CoarseCos == {-Scale, Scale \div 2}
\* ls_eps: off (CONFIG['ls_eps'] is 0.0), and 0.1.
LsEpsValues == {0, Scale \div 10}

ArcOff ==
    /\ arc_pc = "off" /\ arc_easy_margin = FALSE /\ arc_ls_eps = 0
    /\ arc_cosine = <<>> /\ arc_label = <<>> /\ arc_output = <<>>

\* A head and a batch: the cosine matrix of line 258 and the labels.
ArcInit ==
    /\ arc_pc = "input"
    /\ arc_easy_margin \in BOOLEAN
    /\ arc_ls_eps \in LsEpsValues
    /\ arc_label \in [Samples -> Classes]
    /\ \E own \in [Samples -> FineCos], other \in [Samples -> [Classes -> CoarseCos]] :
          arc_cosine = [i \in Samples |->
                           [j \in Classes |->
                               IF j = arc_label[i] THEN own[i] ELSE other[i][j]]]
    /\ arc_output = <<>>

\* ArcMarginProduct.forward(input, label).
ArcForwardCall ==
    /\ arc_pc = "input"
    /\ arc_output' = ArcForward(arc_cosine, arc_label, arc_easy_margin, arc_ls_eps)
    /\ arc_pc' = "done"
    /\ UNCHANGED <<arc_easy_margin, arc_ls_eps, arc_cosine, arc_label>>
    /\ UNCHANGED <<trainVars, ventVars, gemVars, cfgVars, lstmVars>>

(***************************************************************************)
(* arc_gempool.py: GeM (lines 192-205).  Feature values are measured in    *)
(* units of eps / gem_eps: the pooling is homogeneous of degree one, so    *)
(* the unit does not matter, only the position of a value relative to eps. *)
(***************************************************************************)
\* Line 193: eps = 1e-6.
gem_eps == 12
\* Line 193: p = 3, the initial value of the learned exponent.
p_init == 3
\* The feature map of one channel has GemHeight rows ...
GemHeight == 2
\* ... and two columns.
GemCols == 0..1
GemRows == 0..(GemHeight - 1)
\* The entries of a feature map are the multiples -eps, 0, ..., GemMaxVal * eps
\* of eps, and eps / 2.
GemMaxVal == 2
GemVals == {k * gem_eps : k \in (-1)..GemMaxVal} \cup {gem_eps \div 2}

RECURSIVE Pow(_, _)
\* a^p for a natural p.
Pow(a, p) == IF p = 0 THEN 1 ELSE a * Pow(a, p - 1)

\* y^(1/p), rounded down.
Root(y, p) == CHOOSE r \in 0..y : Pow(r, p) <= y /\ Pow(r + 1, p) > y

\* Mutant of Clamp: the floor is 2 * eps.
ClampDouble(a, eps) == IF a < 2 * eps THEN 2 * eps ELSE a

\* x.clamp(min=eps), one entry.
Clamp(a, eps) == IF a < eps THEN eps ELSE a

RECURSIVE SumOver(_, _)
\* The sum of f over the finite set D.
SumOver(f, D) ==
    IF D = {} THEN 0
    ELSE LET d == CHOOSE d \in D : TRUE IN f[d] + SumOver(f, D \ {d})

\* F.avg_pool2d(y, (y.size(-2), y.size(-1))): the mean of all entries of y.
AvgPool2d(y) ==
    LET cells == {<<h, w>> : h \in DOMAIN y, w \in DOMAIN y[CHOOSE h \in DOMAIN y : TRUE]}
        flat == [c \in cells |-> y[c[1]][c[2]]]
    IN  SumOver(flat, cells) \div Cardinality(cells)

\* Line 205: F.avg_pool2d(x.clamp(min=eps).pow(p), (H, W)).pow(1./p).
Gem(x, p, eps) ==
    Root(AvgPool2d([h \in DOMAIN x |-> [w \in DOMAIN x[h] |-> Pow(Clamp(x[h][w], eps), p)]]), p)

GemOff ==
    /\ gem_pc = "off" /\ gem_x = <<>> /\ gem_p = 0 /\ gem_out = 0

\* A feature map and a value of the exponent.
GemInit ==
    /\ gem_pc = "input"
    /\ gem_x \in [GemRows -> [GemCols -> GemVals]]
    /\ gem_p \in 1..p_init
    /\ gem_out = 0

\* GeM.forward: self.gem(x, p=self.p, eps=self.eps).
GemForward ==
    /\ gem_pc = "input"
    /\ gem_out' = Gem(gem_x, gem_p, gem_eps)
    /\ gem_pc' = "done"
    /\ UNCHANGED <<gem_x, gem_p>>
    /\ UNCHANGED <<trainVars, ventVars, arcVars, cfgVars, lstmVars>>

(***************************************************************************)
(* Specifications.                                                         *)
(***************************************************************************)
\* run_training of arc_gempool.py.
Init == TrainInit /\ VentOff /\ ArcOff /\ GemOff /\ CfgOff /\ LstmOff

Next ==
    \/ TrainBatch
    \/ \E val \in Losses : ValidAndCheckpoint(val)
    \/ LoadBest

Spec == Init /\ [][Next]_vars

\* lstm_train.py on short CSV files, the loss of a batch being 0 or 1.
ShortCsv == {HeldOutEnd + k * batch_size + 7 : k \in 0..MaxBatches}
BatchLosses == {0, 1}

InitVent == TrainOff /\ (\E n \in ShortCsv : VentStart(n)) /\ ArcOff /\ GemOff /\ CfgOff /\ LstmOff

NextVent == VentNext(BatchLosses)

SpecVent == InitVent /\ [][NextVent]_vars

\* lstm_train.py on a CSV file that holds the 8800 rows the split takes.  The
\* loss decides no branch of the script; it is 0 here.
FullCsv == {TrainEnd, TrainEnd + 1}

InitVentFull == TrainOff /\ (\E n \in FullCsv : VentStart(n)) /\ ArcOff /\ GemOff /\ CfgOff /\ LstmOff

NextVentFull == VentNext({0})

SpecVentFull == InitVentFull /\ [][NextVentFull]_vars

\* ArcMarginProduct.forward on a batch.
InitArc == TrainOff /\ VentOff /\ ArcInit /\ GemOff /\ CfgOff /\ LstmOff

NextArc == ArcForwardCall

SpecArc == InitArc /\ [][NextArc]_vars

\* GeM.forward on one channel.
InitGem == TrainOff /\ VentOff /\ ArcOff /\ GemInit /\ CfgOff /\ LstmOff

NextGem == GemForward

SpecGem == InitGem /\ [][NextGem]_vars

(***************************************************************************)
(* Properties of run_training and train_one_epoch (Spec).                  *)
(***************************************************************************)
\* The best validation loss of the epochs before the current one (np.inf
\* before the first).
EarlierBest == Min(Range(history) \cup {inf})

\* An epoch ends in this step: its validation loss joins the history.
EpochEnds == Len(history') = Len(history) + 1

\* The step writes one file, holding the weights of the end of the epoch.
WritesFile ==
    /\ Len(files') = Len(files) + 1
    /\ Last(files').wts = weights /\ Last(files').epoch = epoch
    /\ Last(files').loss = Last(history')

\* C1 as stated: a weights file is written at the end of an epoch if and only if
\* the epoch's validation loss is strictly lower than the best validation loss of
\* all earlier epochs; otherwise no file is written.
C1_WrittenIffStrictlyLower ==
    [][EpochEnds => /\ WritesFile <=> Last(history') < EarlierBest
                    /\ ~WritesFile => files' = files]_vars

\* C1 amended: a weights file is written at the end of an epoch if and only if the
\* epoch's validation loss is lower than or equal to the best validation loss of
\* all earlier epochs (a tie with the best so far is checkpointed too); otherwise
\* no file is written.
C1_WrittenIffNotHigher ==
    [][EpochEnds => /\ WritesFile <=> Last(history') <= EarlierBest
                    /\ ~WritesFile => files' = files]_vars

\* An epoch that tied with the best so far was checkpointed, and a later epoch
\* with a higher loss was not.
C1_Witness ==
    /\ Len(history) = 3 /\ history[2] = history[1] /\ history[3] > history[2]
    /\ Len(files) = 2 /\ files[2].epoch = 2

\* C2: after every epoch best_epoch_loss is the minimum of the validation losses
\* appended so far and best_model_wts is the snapshot taken at the end of an epoch
\* that achieved it; when run_training returns the model holds that snapshot and
\* the last file written holds the same weights.
C2_BestIsMinimum ==
    /\ history # <<>> =>
          /\ best_epoch_loss = Min(Range(history))
          /\ \E e \in DOMAIN history :
                /\ history[e] = Min(Range(history))
                /\ best_model_wts = snaps[e]
    /\ pc = "done" =>
          /\ weights = best_model_wts
          /\ files # <<>> => Last(files).wts = best_model_wts

\* run_training has returned; the best epoch was not the last one, and the model
\* went back from the weights of the last epoch to those of the best.
C2_Witness ==
    /\ pc = "done"
    /\ Last(history) > Min(Range(history))
    /\ Last(snaps) # weights

\* C9 as stated: every optimizer.step() applies the gradient of exactly
\* n_accumulate backward passes (none carried over from an earlier epoch), and
\* is followed at once by zero_grad() and then, when there is a scheduler, by one
\* scheduler.step().
C9_StepAppliesNAccumulate ==
    /\ applied \in {0, n_accumulate}
    /\ (\E k \in DOMAIN ops : ops[k] = "optimizer.step") =>
          ops = <<"backward", "optimizer.step", "zero_grad">>
                \o (IF has_scheduler THEN <<"scheduler.step">> ELSE <<>>)

(***************************************************************************)
(* Properties of lstm_train.py (SpecVent, SpecVentFull).                   *)
(***************************************************************************)
\* The lowest running_loss of a finished epoch.
LowestEpochLoss == Min({epoch_log[e].loss : e \in DOMAIN epoch_log})

\* C3 as stated: model_LSTM.pt holds the parameters that achieved the lowest loss
\* observed over the epochs of the training loop.
C3_SavedIsBest ==
    v_pc = "done" =>
        \E e \in DOMAIN epoch_log :
            /\ epoch_log[e].loss = LowestEpochLoss
            /\ saved = <<epoch_log[e].wts>>

\* C3 amended: model_LSTM.pt holds the parameters the model has after the last
\* optimizer step of the last epoch, whatever the losses were; it is written
\* once, after the loop.
C3_SavedIsLast ==
    /\ v_pc # "done" => saved = NoFile
    /\ v_pc = "done" =>
          /\ saved = <<Last(epoch_log).wts>>
          /\ saved = <<NumEpochs * batch_num_train(n_rows)>>

\* The file is written, and the last epoch had a higher loss than an earlier one.
C3_Witness ==
    /\ v_pc = "done" /\ saved # NoFile
    /\ Last(epoch_log).loss > LowestEpochLoss
    /\ batch_num_train(n_rows) > 1

\* Whether intervals a and b share no row.
Disjoint(a, b) == Rows(a) \cap Rows(b) = {}

GuardedDone == arc_pc = "done" /\ ~arc_easy_margin /\ arc_ls_eps = 0

\* The cosine and the output of sample i in the column of its label.
TrueCos(i) == arc_cosine[i][arc_label[i]]
TrueOut(i) == arc_output[i][arc_label[i]]

\* C4 as stated: where theta < pi - m (cosine > cos(pi - m)), the output for the
\* true class is greater than or equal to s * cosine.
C4_TrueClassAtLeastCosine ==
    GuardedDone => \A i \in Samples : TrueCos(i) > th => TrueOut(i) >= s * TrueCos(i)

\* C4 amended: where theta < pi - m, the output for the true class is less than
\* or equal to s * cosine (it is s * cos(theta + m)).
C4_TrueClassAtMostCosine ==
    GuardedDone => \A i \in Samples : TrueCos(i) > th => TrueOut(i) <= s * TrueCos(i)

\* Both samples of the batch have theta < pi - m, one of them theta = 0.
C4_Witness ==
    /\ GuardedDone
    /\ \A i \in Samples : TrueCos(i) > th
    /\ \E i \in Samples : TrueCos(i) = Scale /\ TrueOut(i) = s * cos_m

\* C5: for every cosine in [-1, 1], in the cos(theta + m) region and in the guard
\* region, the output for the true class is at most s * cosine, and the output
\* for every other class is exactly s * cosine.
C5_MarginIsPenalty ==
    GuardedDone =>
        \A i \in Samples : \A j \in Classes :
            IF j = arc_label[i]
            THEN arc_output[i][j] <= s * arc_cosine[i][j]
            ELSE arc_output[i][j] = s * arc_cosine[i][j]

\* One sample is in the guard region and the other in the cos(theta + m) region.
C5_Witness ==
    /\ GuardedDone
    /\ TrueCos(0) <= th /\ TrueOut(0) < s * TrueCos(0)
    /\ TrueCos(1) > th /\ TrueOut(1) < s * TrueCos(1)

\* C6: entry (i, j) of the output is s * v, where v is cos * cos(m) - sin * sin(m)
\* if j is the label of i and cos > cos(pi - m), cos - sin(pi - m) * m if j is the
\* label of i and cos <= cos(pi - m), and cos if j is not the label of i; exactly
\* one entry per row, the label's, is margin-adjusted.
C6_OutputFormula ==
    GuardedDone =>
        \A i \in Samples :
            /\ \A j \in Classes :
                  LET c == arc_cosine[i][j]
                      v == IF j = arc_label[i]
                           THEN IF c > th
                                THEN FxMul(c, cos_m) - FxMul(Sine(c), sin_m)
                                ELSE c - mm
                           ELSE c
                  IN  arc_output[i][j] = s * v
            /\ {j \in Classes : arc_output[i][j] # s * arc_cosine[i][j]} = {arc_label[i]}

\* One true-class cosine is exactly cos(pi - m), the other is just above it.
C6_Witness ==
    /\ GuardedDone
    /\ TrueCos(0) = th /\ TrueOut(0) = s * (th - mm)
    /\ TrueCos(1) = th + 1

\* C7: for two true-class cosines c1 <= c2 the margin-adjusted value for c1 is at
\* most that for c2, also across the threshold cos(pi - m).
C7_MarginMonotone ==
    GuardedDone =>
        \A i1 \in Samples, i2 \in Samples :
            TrueCos(i1) <= TrueCos(i2) => TrueOut(i1) <= TrueOut(i2)

\* The two true-class cosines are on the two sides of the threshold.
C7_Witness ==
    /\ GuardedDone
    /\ TrueCos(0) = -Scale /\ TrueCos(1) = th + 1
    /\ TrueOut(0) < TrueOut(1)

(***************************************************************************)
(* Properties of GeM.gem (SpecGem).                                        *)
(***************************************************************************)
\* The mean of the feature map over its two spatial dimensions.
SpatialMean(x) == AvgPool2d(x)

\* C8 as stated: for every feature map x, gem(x, p=1, eps) is the mean of x over
\* the two spatial dimensions.
C8_GemP1IsMean ==
    (gem_pc = "done" /\ gem_p = 1) => gem_out = SpatialMean(gem_x)

\* C8 amended: for every feature map x whose entries are all at least eps,
\* gem(x, p=1, eps) is the mean of x over the two spatial dimensions.
C8_GemP1IsMeanAboveEps ==
    (/\ gem_pc = "done" /\ gem_p = 1
     /\ \A h \in GemRows : \A w \in GemCols : gem_x[h][w] >= gem_eps)
    => gem_out = SpatialMean(gem_x)

\* gem has run with p = 1 on a map of unequal entries, all at least eps, one of
\* them eps itself.
C8_Witness ==
    /\ gem_pc = "done" /\ gem_p = 1
    /\ \A h \in GemRows : \A w \in GemCols : gem_x[h][w] >= gem_eps
    /\ gem_x[0][0] = gem_eps /\ gem_x[0][1] = 2 * gem_eps
    /\ gem_out > gem_eps

(***************************************************************************)
(* lstm_train.py: LSTM1.forward (lines 74-93) and the prediction of lines  *)
(* 117-120, on one batch.  Every sample is a sequence of length 1 (line    *)
(* 49), so the final hidden state of a direction, and with it pressure_in, *)
(* is for each sample a function of that sample's features alone; the     *)
(* function is fixed by the weights and is kept as a table.                *)
(***************************************************************************)
\* The samples of a batch are 0..BatchLen - 1 (batch_size is 80).
BatchLen == 3
\* The feature vector of a sample is one of 0..MaxFeature.
MaxFeature == 1

Positions == 0..(BatchLen - 1)
Features == 0..MaxFeature
\* The values pressure_in takes.
PressureVals == {0, 2}
\* The two directions of the bidirectional LSTM: 0 forward, 1 backward.
Directions == 0..1

\* Line 119: the index in pressure_in[1][:][2].
bwd_index == 2

\* LSTM1.forward: hn has shape (2, batch, hidden) and hn.squeeze(0) leaves it so;
\* the dense layers act on the last dimension, so pressure_in has shape
\* (2, batch, 1): entry [d][k] is computed from sample k in direction d.
PressureIn(net, x) == [d \in Directions |-> [k \in DOMAIN x |-> net[d][x[k]]]]

\* Lines 119-120: pressure_in[0][:][:] is the forward row, of shape (batch, 1);
\* pressure_in[1][:][2] is entry 2 of the backward row, of shape (1,), and is
\* broadcast over the batch.
Prediction(pressure_in) ==
    [k \in DOMAIN pressure_in[0] |->
        (pressure_in[0][k] + pressure_in[1][bwd_index]) \div 2]

\* A model (its weights) and a batch.
LstmInit ==
    /\ l_pc = "input"
    /\ l_net \in [Directions -> [Features -> PressureVals]]
    /\ l_x \in [Positions -> Features]
    /\ l_pred = <<>> /\ l_x0 = <<>> /\ l_pred0 = <<>>

\* Lines 117-120 on the batch l_x.
LstmPass ==
    /\ l_pc = "input"
    /\ l_pred' = Prediction(PressureIn(l_net, l_x))
    /\ l_pc' = "done"
    /\ UNCHANGED <<l_net, l_x, l_x0, l_pred0>>
    /\ UNCHANGED <<trainVars, ventVars, arcVars, gemVars, cfgVars>>

\* The next batch given to the same model: the last one with the features of
\* sample j changed to f.
LstmChangeSample(j, f) ==
    /\ l_pc = "done"
    /\ l_x0 = <<>>
    /\ f # l_x[j]
    /\ l_x0' = l_x
    /\ l_pred0' = l_pred
    /\ l_x' = [l_x EXCEPT ![j] = f]
    /\ l_pc' = "input"
    /\ UNCHANGED <<l_net, l_pred>>
    /\ UNCHANGED <<trainVars, ventVars, arcVars, gemVars, cfgVars>>

InitLstm == TrainOff /\ VentOff /\ ArcOff /\ GemOff /\ CfgOff /\ LstmInit

NextLstm ==
    \/ LstmPass
    \/ \E j \in Positions, f \in Features : LstmChangeSample(j, f)

SpecLstm == InitLstm /\ [][NextLstm]_vars

\* The average of sample k's own forward-direction and backward-direction
\* pressure_in values.
OwnAverage(net, x, k) == (net[0][x[k]] + net[1][x[k]]) \div 2

\* C11 as stated: the prediction for batch position k is computed only from
\* position k's own outputs (it is their average), so that changing the features
\* of any other sample of the batch leaves the prediction for position k
\* unchanged.
C11_OtherSamplesDoNotMatter ==
    (l_pc = "done" /\ l_x0 # <<>>) =>
        \A k \in Positions :
            l_x[k] = l_x0[k] =>
                /\ l_pred[k] = l_pred0[k]
                /\ l_pred[k] = OwnAverage(l_net, l_x, k)

(***************************************************************************)
(* arc_gempool.py: HappyWhaleModel.__init__ builds the head from CONFIG    *)
(* (lines 308-313), then forward calls it (line 325).                      *)
(***************************************************************************)
\* Line 269: `if self.easy_margin:` on a number is true unless it is zero.
Truthy(x) == x # 0

\* Line 312: the easy_margin argument of the head, easy_margin=CONFIG["ls_eps"],
\* as the test of line 269 reads it.
HeadEasyMargin(config_easy_margin, config_ls_eps) == Truthy(config_ls_eps)

\* Line 313: ls_eps=CONFIG["ls_eps"].
HeadLsEps(config_ls_eps) == config_ls_eps

\* A CONFIG and a batch; no head yet.
WhaleInit ==
    /\ cfg_easy_margin \in BOOLEAN
    /\ cfg_ls_eps \in LsEpsValues
    /\ arc_pc = "config"
    /\ arc_easy_margin = FALSE /\ arc_ls_eps = 0
    /\ arc_label \in [Samples -> Classes]
    /\ \E own \in [Samples -> FineCos], other \in [Samples -> [Classes -> CoarseCos]] :
          arc_cosine = [i \in Samples |->
                           [j \in Classes |->
                               IF j = arc_label[i] THEN own[i] ELSE other[i][j]]]
    /\ arc_output = <<>>

\* HappyWhaleModel.__init__, lines 308-313: self.fc = ArcMarginProduct(...).
BuildHead ==
    /\ arc_pc = "config"
    /\ arc_easy_margin' = HeadEasyMargin(cfg_easy_margin, cfg_ls_eps)
    /\ arc_ls_eps' = HeadLsEps(cfg_ls_eps)
    /\ arc_pc' = "input"
    /\ UNCHANGED <<arc_cosine, arc_label, arc_output>>
    /\ UNCHANGED <<trainVars, ventVars, gemVars, cfgVars, lstmVars>>

InitWhale == TrainOff /\ VentOff /\ WhaleInit /\ GemOff /\ LstmOff

NextWhale ==
    \/ BuildHead
    \/ ArcForwardCall

SpecWhale == InitWhale /\ [][NextWhale]_vars

\* C12 as stated: the head built by HappyWhaleModel runs in easy-margin mode
\* exactly when CONFIG['easy_margin'] is true and in guarded mode exactly when it
\* is false, whatever CONFIG['ls_eps'] is, and label smoothing is applied exactly
\* when CONFIG['ls_eps'] > 0: the head is in the configured mode and its output is
\* that of a head with easy_margin = CONFIG['easy_margin'], ls_eps = CONFIG['ls_eps'].
C12_ModeFollowsConfig ==
    /\ arc_pc \in {"input", "done"} =>
          /\ arc_easy_margin = cfg_easy_margin
          /\ (arc_ls_eps > 0) = (cfg_ls_eps > 0)
    /\ arc_pc = "done" =>
          arc_output = ArcForward(arc_cosine, arc_label, cfg_easy_margin, cfg_ls_eps)

====
